---- MODULE Spec2Model ----
(***************************************************************************)
(* Kruskal's minimum spanning tree over a disjoint-set forest              *)
(* (src/unnamed/part_000): class DisjointSet (constructor, find, union)    *)
(* and kruskalMST(vertices, edges).                                        *)
(*                                                                         *)
(* Vertex identifiers are the integers 1, 2, ...  JavaScript's `undefined` *)
(* (what Map.get answers for a missing key) and NaN are the two negative   *)
(* integers Undef and NaN, which no vertex, rank, weight or cost of the    *)
(* model takes, so that every value of the model is an integer and === is  *)
(* TLA+ equality.                                                          *)
(***************************************************************************)
EXTENDS Integers, Sequences, FiniteSets

\* ------------------------------------------------------------- bounds

\* DisjointSet under arbitrary calls: the constructor registers 1..MaxV.
MaxV == 4
\* kruskalMST: at most MaxKV vertices and MaxE edges in the input.
MaxKV == 3
MaxE == 3
\* The identifiers 1..MaxId the edges of a kruskalMST call may name, in
\* the vertex list or not, and the most edges of such a call.
MaxId == 3
MaxAnyE == 2
\* The identifiers 1..MaxDsId a direct caller of the DisjointSet may name,
\* registered or not, and the longest list it passes to the constructor.
MaxDsId == 2
MaxDsLen == 3
\* Most edges of a kruskalMST call that is compared with its run on a
\* DisjointSet without path compression.
MaxWalkE == 4
\* The identifiers 1..MaxRunId and the most edges of a kruskalMST call that
\* is followed from its entry to its return.
MaxRunId == 2
MaxRunE == 2
\* Task times 0..MaxTime and the longest task list.
MaxTime == 3
MaxTasks == 3
\* The largest capacity of an ArrayQueue.
MaxCap == 3
\* Priorities 0..MaxPrio and the most elements a priority queue is given.
MaxPrio == 2
MaxPq == 4
\* Edge weights of the inputs: negative, zero, positive, and so also equal.
Weights == {-1, 0, 1}

\* ------------------------------------------------- JavaScript values

\* `undefined`: Map.prototype.get of a key the map does not hold.
Undef == -100
\* NaN: undefined + 1.
NaN == -200

\* typeof a === "number" and a is not NaN.
IsNum(a) == a # Undef /\ a # NaN

\* Map.prototype.get
Get(m, k) == IF k \in DOMAIN m THEN m[k] ELSE Undef

\* Map.prototype.set
Put(m, k, v) == [j \in (DOMAIN m) \cup {k} |-> IF j = k THEN v ELSE m[j]]

\* a < b on numbers; false when either side is undefined or NaN.
Less(a, b) == a >= 0 /\ b >= 0 /\ a < b

\* a + 1 on numbers; NaN when a is undefined or NaN.
Inc(a) == IF a >= 0 THEN a + 1 ELSE NaN

\* a + b and a - b; NaN when either side is undefined or NaN.
Add(a, b) == IF IsNum(a) /\ IsNum(b) THEN a + b ELSE NaN

Sub(a, b) == IF IsNum(a) /\ IsNum(b) THEN a - b ELSE NaN

Range(s) == {s[i] : i \in 1..Len(s)}

\* ------------------------------------------------------ DisjointSet

RECURSIVE construct(_, _)

\* A constructor whose rank counts how often an element was listed before.
constructCounting(elements, n) ==
  IF n = 0 THEN [parent |-> <<>>, rank |-> <<>>]
  ELSE LET ds == construct(elements, n - 1)
           e == elements[n]
       IN [parent |-> Put(ds.parent, e, e),
           rank |-> Put(ds.rank, e,
                        IF e \in DOMAIN ds.rank THEN Inc(ds.rank[e]) ELSE 0)]

\* constructor(elements) after the first n elements of the loop: two empty
\* maps, then parent.set(e, e) and rank.set(e, 0) for each element in turn.
construct(elements, n) ==
  IF n = 0 THEN [parent |-> <<>>, rank |-> <<>>]
  ELSE LET ds == construct(elements, n - 1)
           e == elements[n]
       IN [parent |-> Put(ds.parent, e, e), rank |-> Put(ds.rank, e, 0)]

\* constructor(elements): every element its own parent, with rank 0.
NewParent(elements) == construct(elements, Len(elements)).parent

NewRank(elements) == construct(elements, Len(elements)).rank

RECURSIVE find(_, _)

\* find with the arguments of parent.set exchanged: the root is hung under x.
findSwapped(p, x) ==
  IF Get(p, x) # x
  THEN LET y == Get(p, x)
           f == find(p, y)
           q == Put(f.parent, f.ret, x)
       IN [parent |-> q, ret |-> Get(q, x)]
  ELSE [parent |-> p, ret |-> Get(p, x)]

\* find that makes x the representative of its set.
findReroot(p, x) ==
  IF Get(p, x) # x
  THEN LET y == Get(p, x)
           f == find(p, y)
           q == Put(Put(f.parent, f.ret, x), x, x)
       IN [parent |-> q, ret |-> Get(q, x)]
  ELSE [parent |-> p, ret |-> Get(p, x)]

\* find that answers the parent it read before compressing.
findStale(p, x) ==
  IF Get(p, x) # x
  THEN LET y == Get(p, x)
           f == find(p, y)
           q == Put(f.parent, x, f.ret)
       IN [parent |-> q, ret |-> y]
  ELSE [parent |-> p, ret |-> Get(p, x)]

\* find that answers the root and rewrites no parent link.
findNoCompress(p, x) ==
  IF Get(p, x) # x
  THEN LET y == Get(p, x)
           f == find(p, y)
       IN [parent |-> f.parent, ret |-> f.ret]
  ELSE [parent |-> p, ret |-> Get(p, x)]

\* find that registers an identifier the map does not hold, as its own root.
findAutoRegister(p, x) ==
  IF x \notin DOMAIN p
  THEN [parent |-> Put(p, x, x), ret |-> x]
  ELSE IF Get(p, x) # x
  THEN LET y == Get(p, x)
           f == find(p, y)
           q == Put(f.parent, x, f.ret)
       IN [parent |-> q, ret |-> Get(q, x)]
  ELSE [parent |-> p, ret |-> Get(p, x)]

\* find(x): recursive, with path compression.  The argument
\* this.parent.get(x) is read before the recursive call; the call's result
\* is what the callee's parent.get answers after its own rewriting.
find(p, x) ==
  IF Get(p, x) # x
  THEN LET y == Get(p, x)
           f == find(p, y)
           q == Put(f.parent, x, f.ret)
       IN [parent |-> q, ret |-> Get(q, x)]
  ELSE [parent |-> p, ret |-> Get(p, x)]

\* Union by rank with the rank of the surviving root raised in every merge.
linkAlwaysBump(p, rk, rootX, rootY) ==
  LET rankX == Get(rk, rootX)
      rankY == Get(rk, rootY)
  IN IF Less(rankX, rankY)
     THEN [parent |-> Put(p, rootX, rootY),
           rank |-> Put(rk, rootY, Inc(rankY)), ret |-> TRUE]
     ELSE [parent |-> Put(p, rootY, rootX),
           rank |-> Put(rk, rootX, Inc(rankX)), ret |-> TRUE]

\* Union by rank that forgets parent.set when rootX has the larger rank.
linkSkipGreater(p, rk, rootX, rootY) ==
  LET rankX == Get(rk, rootX)
      rankY == Get(rk, rootY)
  IN IF Less(rankX, rankY)
     THEN [parent |-> Put(p, rootX, rootY), rank |-> rk, ret |-> TRUE]
     ELSE IF Less(rankY, rankX)
     THEN [parent |-> p, rank |-> rk, ret |-> TRUE]
     ELSE [parent |-> Put(p, rootY, rootX),
           rank |-> Put(rk, rootX, Inc(rankX)), ret |-> TRUE]

\* Union that always attaches rootY under rootX, whatever the ranks.
linkIgnoreRank(p, rk, rootX, rootY) ==
  LET rankX == Get(rk, rootX)
      rankY == Get(rk, rootY)
  IN IF rankX = rankY
     THEN [parent |-> Put(p, rootY, rootX),
           rank |-> Put(rk, rootX, Inc(rankX)), ret |-> TRUE]
     ELSE [parent |-> Put(p, rootY, rootX), rank |-> rk, ret |-> TRUE]

\* Union by rank that leaves the rank as it is on a tie.
linkNoBump(p, rk, rootX, rootY) ==
  LET rankX == Get(rk, rootX)
      rankY == Get(rk, rootY)
  IN IF Less(rankX, rankY)
     THEN [parent |-> Put(p, rootX, rootY), rank |-> rk, ret |-> TRUE]
     ELSE [parent |-> Put(p, rootY, rootX), rank |-> rk, ret |-> TRUE]

\* Lines 35-46 of union: the two roots differ; attach one under the other
\* by rank and answer true.
link(p, rk, rootX, rootY) ==
  LET rankX == Get(rk, rootX)
      rankY == Get(rk, rootY)
  IN IF Less(rankX, rankY)
     THEN [parent |-> Put(p, rootX, rootY), rank |-> rk, ret |-> TRUE]
     ELSE IF Less(rankY, rankX)
     THEN [parent |-> Put(p, rootY, rootX), rank |-> rk, ret |-> TRUE]
     ELSE [parent |-> Put(p, rootY, rootX),
           rank |-> Put(rk, rootX, Inc(rankX)), ret |-> TRUE]

\* union that attaches the argument y, not its root, under the other root.
unionLinkArg(p, rk, x, y) ==
  LET fx == find(p, x)
      fy == find(fx.parent, y)
  IN IF fx.ret = fy.ret
     THEN [parent |-> fy.parent, rank |-> rk, ret |-> FALSE]
     ELSE [parent |-> Put(fy.parent, y, fx.ret), rank |-> rk, ret |-> TRUE]

\* union whose early return compares the arguments, not their roots.
unionCompareArgs(p, rk, x, y) ==
  LET fx == find(p, x)
      fy == find(fx.parent, y)
  IN IF x = y
     THEN [parent |-> fy.parent, rank |-> rk, ret |-> FALSE]
     ELSE link(fy.parent, rk, fx.ret, fy.ret)

\* union without the early return for equal roots.
unionNoEarlyReturn(p, rk, x, y) ==
  LET fx == find(p, x)
      fy == find(fx.parent, y)
  IN link(fy.parent, rk, fx.ret, fy.ret)

\* union(x, y): rootX = find(x), rootY = find(y); false when they are the
\* same root, otherwise union by rank.
union(p, rk, x, y) ==
  LET fx == find(p, x)
      fy == find(fx.parent, y)
  IN IF fx.ret = fy.ret
     THEN [parent |-> fy.parent, rank |-> rk, ret |-> FALSE]
     ELSE link(fy.parent, rk, fx.ret, fy.ret)

\* ------------------------------------------------------------ state

VARIABLES
  parent,     \* ds.parent
  rank,       \* ds.rank
  op,         \* the last DisjointSet call that returned: "new", "find" or
              \* "union"
  argX,       \* its first argument (Undef after "new")
  argY,       \* its second argument (Undef unless "union")
  ret,        \* what it returned (a root, or TRUE/FALSE as 1/0)
  pparent,    \* ds.parent as it was before the last call
  prank,      \* ds.rank as it was before the last call
  prevFind    \* <<x, root>> of the call before the last one when that was a
              \* find, <<>> otherwise
dsvars == <<parent, rank, op, argX, argY, ret, pparent, prank, prevFind>>

VARIABLES
  vertices,     \* kruskalMST's first argument
  edges,        \* kruskalMST's second argument: the caller's edge objects
  sortedEdges,  \* the sorted copy: references (indices into edges)
  mstEdges,     \* the selected edges, as references, in the order pushed
  totalCost,
  idx,          \* position of the for-of loop in sortedEdges
  pc            \* "idle" (no kruskalMST call), "start", "scan", "done"
kvars == <<vertices, edges, sortedEdges, mstEdges, totalCost, idx, pc>>

\* The other programs of the repository (interval_scheduling.js, graph.js):
\* each has its own variables, which rest while a DisjointSet or kruskalMST
\* run goes on.
VARIABLES
  tasks,       \* the task list handed to greedySelect and bruteForceSelect
  greedyOut,   \* what greedySelect returned: references (indices into tasks)
  bruteOut,    \* what bruteForceSelect returned, likewise
  ran          \* which of the two have returned: "greedy", "brute"
svars == <<tasks, greedyOut, bruteOut, ran>>

VARIABLES
  capacity,    \* ArrayQueue: this.capacity
  data,        \* this.data, indexed from 0; Undef in an empty slot
  frontIndex,  \* this.frontIndex
  rearIndex,   \* this.rearIndex
  size,        \* this.size
  list,        \* LinkedListQueue: the values of the nodes from head to tail
  qcall,       \* the last call made on both queues: op, arg, what each
               \* returned (aret, lret) and whether each threw (athrew, lthrew)
  qprev        \* the ArrayQueue fields and the list before that call
qvars == <<capacity, data, frontIndex, rearIndex, size, list, qcall, qprev>>

VARIABLES
  heap,    \* MinHeapPriorityQueue: this.heap (index i of the code is i + 1)
  items,   \* OrderedArrayPriorityQueue: this.items
  pcall,   \* the last call made on both priority queues: op, arg, what each
           \* returned (hret, oret) and whether each threw (hthrew, othrew)
  pprev    \* heap and items before that call
pvars == <<heap, items, pcall, pprev>>

libvars == <<svars, qvars, pvars>>

SchedIdle == tasks = <<>> /\ greedyOut = <<>> /\ bruteOut = <<>> /\ ran = {}

\* The fields of the ArrayQueue as one record.
ThisQueue ==
  [capacity |-> capacity, data |-> data, frontIndex |-> frontIndex,
   rearIndex |-> rearIndex, size |-> size]

NoCall ==
  [op |-> "none", arg |-> Undef, aret |-> Undef, lret |-> Undef,
   athrew |-> FALSE, lthrew |-> FALSE]

QueueIdle ==
  /\ capacity = 0
  /\ data = <<>>
  /\ frontIndex = 0
  /\ rearIndex = 0
  /\ size = 0
  /\ list = <<>>
  /\ qcall = NoCall
  /\ qprev = [queue |-> ThisQueue, list |-> list]

NoPqCall ==
  [op |-> "none", arg |-> Undef, hret |-> Undef, oret |-> Undef,
   hthrew |-> FALSE, othrew |-> FALSE]

PqIdle ==
  /\ heap = <<>>
  /\ items = <<>>
  /\ pcall = NoPqCall
  /\ pprev = [heap |-> <<>>, items |-> <<>>]

LibIdle == SchedIdle /\ QueueIdle /\ PqIdle

vars == <<dsvars, kvars, libvars>>

Registered == 1..MaxV

Elements == [i \in 1..MaxV |-> i]

ThisFind == IF op = "find" THEN <<argX, ret>> ELSE <<>>

Init ==
  /\ parent = NewParent(Elements)
  /\ rank = NewRank(Elements)
  /\ op = "new"
  /\ argX = Undef
  /\ argY = Undef
  /\ ret = Undef
  /\ pparent = parent
  /\ prank = rank
  /\ prevFind = <<>>
  /\ vertices = Elements
  /\ edges = <<>>
  /\ sortedEdges = <<>>
  /\ mstEdges = <<>>
  /\ totalCost = 0
  /\ idx = 0
  /\ pc = "idle"
  /\ LibIdle

\* A call ds.find(x) that returns.
FindCall(x) ==
  LET f == find(parent, x)
  IN /\ parent' = f.parent
     /\ rank' = rank
     /\ op' = "find"
     /\ argX' = x
     /\ argY' = Undef
     /\ ret' = f.ret
     /\ pparent' = parent
     /\ prank' = rank
     /\ prevFind' = ThisFind
     /\ UNCHANGED kvars
     /\ UNCHANGED libvars

\* A call ds.union(x, y) that returns.
UnionCall(x, y) ==
  LET u == union(parent, rank, x, y)
  IN /\ parent' = u.parent
     /\ rank' = u.rank
     /\ op' = "union"
     /\ argX' = x
     /\ argY' = y
     /\ ret' = IF u.ret THEN 1 ELSE 0
     /\ pparent' = parent
     /\ prank' = rank
     /\ prevFind' = ThisFind
     /\ UNCHANGED kvars
     /\ UNCHANGED libvars

Find == \E x \in Registered : FindCall(x)

Union == \E x \in Registered, y \in Registered : UnionCall(x, y)

Next == Find \/ Union

Spec == Init /\ [][Next]_vars

\* ------------------------------------------------------- kruskalMST

\* The comparator of the sort: (a, b) => a.weight - b.weight.
compare(a, b) == Sub(a.weight, b.weight)

\* What the sort makes of the comparator's answer: NaN counts as +0.
SortCompare(a, b) == LET v == compare(a, b) IN IF v = NaN THEN 0 ELSE v

\* An unstable insertion: an element goes before the elements it ties with.
InsertBeforeTies(es, s, r) ==
  LET before == {i \in 1..Len(s) : SortCompare(es[s[i]], es[r]) < 0}
      k == Cardinality(before)
  IN SubSeq(s, 1, k) \o <<r>> \o SubSeq(s, k + 1, Len(s))

\* Array.prototype.sort is stable (ECMAScript 2019): an element goes after
\* every element that does not compare greater than it.
InsertSorted(es, s, r) ==
  LET before == {i \in 1..Len(s) : SortCompare(es[s[i]], es[r]) <= 0}
      k == Cardinality(before)
  IN SubSeq(s, 1, k) \o <<r>> \o SubSeq(s, k + 1, Len(s))

RECURSIVE SortRefs(_, _)
SortRefs(es, n) ==
  IF n = 0 THEN <<>> ELSE InsertSorted(es, SortRefs(es, n - 1), n)

\* The copy left in input order: the sort forgotten.
sortNone(es) == [i \in 1..Len(es) |-> i]

\* edges.slice().sort(...): a new array of the same edge objects.
sort(es) == SortRefs(es, Len(es))

\* The comparator is a consistent comparator for es: no weight is undefined
\* or NaN, or no two numeric weights differ (then every pair ties).
Consistent(es) ==
  \/ \A i \in 1..Len(es) : IsNum(es[i].weight)
  \/ \A i, j \in 1..Len(es) :
       IsNum(es[i].weight) /\ IsNum(es[j].weight) => es[i].weight = es[j].weight

\* The orders the sort may leave: the stable ascending one for a consistent
\* comparator, any order (implementation-defined) otherwise.
sortOutcomes(es) ==
  IF Consistent(es)
  THEN {sort(es)}
  ELSE {s \in [1..Len(es) -> 1..Len(es)] : Range(s) = 1..Len(es)}

\* Sorting the caller's array itself: edges.sort(...) without slice().
inputSortedInPlace(es, s) == [i \in 1..Len(s) |-> es[s[i]]]

\* The caller's array after line 61 left the copy in order s: slice() made
\* the copy, so the sort moved nothing in the caller's array.
inputAfterSort(es, s) == es

VertexLists == {[i \in 1..n |-> i] : n \in 0..MaxKV}

\* The edge objects of the inputs: an undirected edge over V, written with
\* its smaller endpoint as u (u = v is a self-loop).  A self-loop has weight
\* 0: its weight only places it in the scan, and the other edges are
\* lighter, equal and heavier.
EdgesOver(V) ==
  {e \in [u : V, v : V, weight : Weights] :
     e.u < e.v \/ (e.u = e.v /\ e.weight = 0)}

SeqsUpTo(S, n) == UNION {[1..k -> S] : k \in 0..n}

KInit ==
  /\ vertices \in VertexLists
  /\ edges \in SeqsUpTo(EdgesOver(Range(vertices)), MaxE)
  /\ parent = <<>>
  /\ rank = <<>>
  /\ op = "none"
  /\ argX = Undef
  /\ argY = Undef
  /\ ret = Undef
  /\ pparent = <<>>
  /\ prank = <<>>
  /\ prevFind = <<>>
  /\ sortedEdges = <<>>
  /\ mstEdges = <<>>
  /\ totalCost = 0
  /\ idx = 0
  /\ pc = "start"
  /\ LibIdle

\* Lines 61-65: the sorted copy, the fresh DisjointSet, the empty result.
KStart ==
  /\ pc = "start"
  /\ \E s \in sortOutcomes(edges) :
       /\ sortedEdges' = s
       /\ edges' = inputAfterSort(edges, s)
  /\ parent' = NewParent(vertices)
  /\ rank' = NewRank(vertices)
  /\ op' = "new"
  /\ argX' = Undef
  /\ argY' = Undef
  /\ ret' = Undef
  /\ pparent' = parent
  /\ prank' = rank
  /\ prevFind' = <<>>
  /\ mstEdges' = <<>>
  /\ totalCost' = 0
  /\ idx' = 1
  /\ pc' = "scan"
  /\ UNCHANGED vertices
  /\ UNCHANGED libvars

\* Lines 67-73: one iteration of the loop over sortedEdges.
KStep ==
  /\ pc = "scan"
  /\ idx <= Len(sortedEdges)
  /\ LET r == sortedEdges[idx]
         edge == edges[r]
         u == union(parent, rank, edge.u, edge.v)
     IN /\ parent' = u.parent
        /\ rank' = u.rank
        /\ op' = "union"
        /\ argX' = edge.u
        /\ argY' = edge.v
        /\ ret' = IF u.ret THEN 1 ELSE 0
        /\ pparent' = parent
        /\ prank' = rank
        /\ prevFind' = <<>>
        /\ mstEdges' = IF u.ret THEN Append(mstEdges, r) ELSE mstEdges
        /\ totalCost' = IF u.ret THEN Add(totalCost, edge.weight)
                                  ELSE totalCost
  /\ idx' = idx + 1
  /\ UNCHANGED <<vertices, edges, sortedEdges, pc>>
  /\ UNCHANGED libvars

\* A return taken as soon as an edge has been rejected.
KReturnEarly ==
  /\ pc = "scan"
  /\ idx > Len(sortedEdges) \/ (op = "union" /\ ret = 0)
  /\ pc' = "done"
  /\ UNCHANGED <<dsvars, vertices, edges, sortedEdges, mstEdges, totalCost, idx>>
  /\ UNCHANGED libvars

\* Line 75: return { mstEdges, totalCost }.
KReturn ==
  /\ pc = "scan"
  /\ idx > Len(sortedEdges)
  /\ pc' = "done"
  /\ UNCHANGED <<dsvars, vertices, edges, sortedEdges, mstEdges, totalCost, idx>>
  /\ UNCHANGED libvars

KNext == KStart \/ KStep \/ KReturn

SpecKruskal == KInit /\ [][KNext]_vars

\* kruskalMST after the first n iterations of its loop over the order s.
RECURSIVE scan(_, _, _, _)
scan(vs, es, s, n) ==
  IF n = 0
  THEN [parent |-> NewParent(vs), rank |-> NewRank(vs),
        mstEdges |-> <<>>, totalCost |-> 0]
  ELSE LET st == scan(vs, es, s, n - 1)
           edge == es[s[n]]
           u == union(st.parent, st.rank, edge.u, edge.v)
       IN [parent |-> u.parent, rank |-> u.rank,
           mstEdges |-> IF u.ret THEN Append(st.mstEdges, s[n])
                                 ELSE st.mstEdges,
           totalCost |-> IF u.ret THEN Add(st.totalCost, edge.weight)
                                  ELSE st.totalCost]

\* The results { mstEdges, totalCost } kruskalMST(vs, es) may return.
kruskalMST(vs, es) ==
  {[mstEdges |-> scan(vs, es, s, Len(s)).mstEdges,
    totalCost |-> scan(vs, es, s, Len(s)).totalCost] : s \in sortOutcomes(es)}

\* ------------------------------------ callers that honour no precondition

\* The class checks none of its arguments: the constructor takes any list,
\* repeats included, and find and union take any identifier, registered or
\* not.

DsIds == 1..MaxDsId

ElementLists == UNION {[1..k -> DsIds] : k \in 0..MaxDsLen}

AnyInit ==
  /\ vertices \in ElementLists
  /\ parent = NewParent(vertices)
  /\ rank = NewRank(vertices)
  /\ op = "new"
  /\ argX = Undef
  /\ argY = Undef
  /\ ret = Undef
  /\ pparent = parent
  /\ prank = rank
  /\ prevFind = <<>>
  /\ edges = <<>>
  /\ sortedEdges = <<>>
  /\ mstEdges = <<>>
  /\ totalCost = 0
  /\ idx = 0
  /\ pc = "idle"
  /\ LibIdle

FindAny == \E x \in DsIds : FindCall(x)

UnionAny == \E x \in DsIds, y \in DsIds : UnionCall(x, y)

AnyNext == FindAny \/ UnionAny

SpecAny == AnyInit /\ [][AnyNext]_vars

\* kruskalMST checks none of its arguments either: an edge may name an
\* identifier that is not in the vertex list, in either position.
Ids == 1..MaxId

AnyEdges == [u : Ids, v : Ids, weight : Weights]

AnyKInit ==
  /\ vertices \in {[i \in 1..n |-> i] : n \in 0..MaxId}
  /\ edges \in SeqsUpTo(AnyEdges, MaxAnyE)
  /\ parent = <<>>
  /\ rank = <<>>
  /\ op = "none"
  /\ argX = Undef
  /\ argY = Undef
  /\ ret = Undef
  /\ pparent = <<>>
  /\ prank = <<>>
  /\ prevFind = <<>>
  /\ sortedEdges = <<>>
  /\ mstEdges = <<>>
  /\ totalCost = 0
  /\ idx = 0
  /\ pc = "start"
  /\ LibIdle

SpecKruskalAny == AnyKInit /\ [][KNext]_vars

\* The identifiers the edges of a call run to completion may name.
RunIds == 1..MaxRunId

\* A caller that has not called kruskalMST yet.
CallInit ==
  /\ vertices = <<>>
  /\ edges = <<>>
  /\ parent = <<>>
  /\ rank = <<>>
  /\ op = "none"
  /\ argX = Undef
  /\ argY = Undef
  /\ ret = Undef
  /\ pparent = <<>>
  /\ prank = <<>>
  /\ prevFind = <<>>
  /\ sortedEdges = <<>>
  /\ mstEdges = <<>>
  /\ totalCost = 0
  /\ idx = 0
  /\ pc = "call"
  /\ LibIdle

\* Line 59: kruskalMST(vertices, edges) is entered with any vertex list and
\* any edge list.
KCall ==
  /\ pc = "call"
  /\ vertices' \in {[i \in 1..n |-> i] : n \in 0..MaxRunId}
  /\ edges' \in SeqsUpTo([u : RunIds, v : RunIds, weight : Weights], MaxRunE)
  /\ pc' = "start"
  /\ UNCHANGED <<dsvars, sortedEdges, mstEdges, totalCost, idx>>
  /\ UNCHANGED libvars

KRunNext == KCall \/ KStart \/ KStep \/ KReturn

\* What the steps of kruskalMST do to its position: line 61-65 enter the
\* loop, an iteration moves idx on by one, the return follows the last
\* iteration.  Within KRunNext the steps that satisfy KProgress are exactly
\* the KNext steps, and KProgress is enabled exactly when KNext is (every
\* other conjunct of KStart, KStep and KReturn assigns a value that always
\* exists), so fairness on KProgress is fairness on KNext.
KProgress ==
  \/ pc = "start" /\ pc' = "scan" /\ idx' = 1
  \/ pc = "scan" /\ idx <= Len(sortedEdges) /\ pc' = pc /\ idx' = idx + 1
  \/ pc = "scan" /\ idx > Len(sortedEdges) /\ pc' = "done" /\ idx' = idx

\* The call run to completion: kruskalMST is one synchronous function, so
\* once entered, the step it can take next is always taken.
SpecKruskalRun == CallInit /\ [][KRunNext]_vars /\ WF_<<pc, idx>>(KProgress)

\* ... and a weight may be missing (undefined) or NaN.
AnyWeights == Weights \cup {Undef, NaN}

WeightKInit ==
  /\ vertices \in VertexLists
  /\ edges \in SeqsUpTo({e \in [u : Range(vertices), v : Range(vertices),
                               weight : AnyWeights] : e.u <= e.v}, MaxE)
  /\ parent = <<>>
  /\ rank = <<>>
  /\ op = "none"
  /\ argX = Undef
  /\ argY = Undef
  /\ ret = Undef
  /\ pparent = <<>>
  /\ prank = <<>>
  /\ prevFind = <<>>
  /\ sortedEdges = <<>>
  /\ mstEdges = <<>>
  /\ totalCost = 0
  /\ idx = 0
  /\ pc = "start"
  /\ LibIdle

SpecKruskalWeights == WeightKInit /\ [][KNext]_vars

\* ------------------------------------------- without path compression

\* The differential test of the specification: the same scan on a
\* DisjointSet whose find only walks to the root and rewrites no parent.

RECURSIVE findWalk(_, _)
findWalk(p, x) ==
  IF Get(p, x) # x THEN findWalk(p, Get(p, x)) ELSE Get(p, x)

\* union(x, y) with findWalk for find.
unionWalk(p, rk, x, y) ==
  LET rootX == findWalk(p, x)
      rootY == findWalk(p, y)
  IN IF rootX = rootY
     THEN [parent |-> p, rank |-> rk, ret |-> FALSE]
     ELSE link(p, rk, rootX, rootY)

\* kruskalMST on that DisjointSet after the first n iterations of its loop
\* over the order s.
RECURSIVE scanWalk(_, _, _, _)
scanWalk(vs, es, s, n) ==
  IF n = 0
  THEN [parent |-> NewParent(vs), rank |-> NewRank(vs),
        mstEdges |-> <<>>, totalCost |-> 0]
  ELSE LET st == scanWalk(vs, es, s, n - 1)
           edge == es[s[n]]
           u == unionWalk(st.parent, st.rank, edge.u, edge.v)
       IN [parent |-> u.parent, rank |-> u.rank,
           mstEdges |-> IF u.ret THEN Append(st.mstEdges, s[n])
                                 ELSE st.mstEdges,
           totalCost |-> IF u.ret THEN Add(st.totalCost, edge.weight)
                                  ELSE st.totalCost]

\* Calls on MaxV vertices whose edges all cost the same, so that the scan
\* takes them in input order: every sequence of up to MaxWalkE unions of two
\* different vertices.
WalkInit ==
  /\ vertices = Elements
  /\ edges \in SeqsUpTo({e \in [u : Registered, v : Registered, weight : {1}] :
                           e.u < e.v}, MaxWalkE)
  /\ parent = <<>>
  /\ rank = <<>>
  /\ op = "none"
  /\ argX = Undef
  /\ argY = Undef
  /\ ret = Undef
  /\ pparent = <<>>
  /\ prank = <<>>
  /\ prevFind = <<>>
  /\ sortedEdges = <<>>
  /\ mstEdges = <<>>
  /\ totalCost = 0
  /\ idx = 0
  /\ pc = "start"
  /\ LibIdle

SpecWalk == WalkInit /\ [][KNext]_vars

\* ------------------------------------------------------------ runDemo

\* The office network of runDemo: the computers A..E as 1..5 and its seven
\* connections in the order of the source.
DemoVertices == <<1, 2, 3, 4, 5>>

DemoEdges ==
  << [u |-> 1, v |-> 2, weight |-> 4],
     [u |-> 1, v |-> 3, weight |-> 2],
     [u |-> 2, v |-> 3, weight |-> 1],
     [u |-> 2, v |-> 4, weight |-> 5],
     [u |-> 3, v |-> 4, weight |-> 8],
     [u |-> 3, v |-> 5, weight |-> 10],
     [u |-> 4, v |-> 5, weight |-> 2] >>

\* The elements of s at the positions I, in the order of s.
Pick(s, I) ==
  [k \in 1..Cardinality(I) |->
     s[CHOOSE i \in I : Cardinality({j \in I : j < i}) = k - 1]]

\* runDemo's call of kruskalMST, and the same call with any of the
\* connections left out of the list.
DemoInit ==
  /\ vertices = DemoVertices
  /\ edges \in {Pick(DemoEdges, I) : I \in SUBSET (1..Len(DemoEdges))}
  /\ parent = <<>>
  /\ rank = <<>>
  /\ op = "none"
  /\ argX = Undef
  /\ argY = Undef
  /\ ret = Undef
  /\ pparent = <<>>
  /\ prank = <<>>
  /\ prevFind = <<>>
  /\ sortedEdges = <<>>
  /\ mstEdges = <<>>
  /\ totalCost = 0
  /\ idx = 0
  /\ pc = "start"
  /\ LibIdle

SpecDemo == DemoInit /\ [][KNext]_vars

\* ---------------------------------------------- reading a state

\* The registered vertices: those passed to the constructor.
Reg == Range(vertices)

\* The parent chain from v, at most n links long: v, parent[v], ... up to
\* the first vertex that is its own parent.
RECURSIVE ChainSeq(_, _, _)
ChainSeq(p, v, n) ==
  IF n = 0 \/ Get(p, v) = v
  THEN <<v>>
  ELSE <<v>> \o ChainSeq(p, Get(p, v), n - 1)

Chain(p, v) == ChainSeq(p, v, Cardinality(DOMAIN p))

ChainSet(p, v) == Range(Chain(p, v))

\* Where the parent chain from v ends.
RootOf(p, v) == Chain(p, v)[Len(Chain(p, v))]

IsRoot(p, v) == Get(p, v) = v

SameSet(p, a, b) == RootOf(p, a) = RootOf(p, b)

SetOf(p, a) == {b \in Reg : SameSet(p, a, b)}

\* The partition of the registered vertices a parent map stands for.
Partition(p) == {SetOf(p, a) : a \in Reg}

\* The number of parent links from v to the end of its chain.
Depth(p, v) == Len(Chain(p, v)) - 1

\* The vertices of the graph: the registered ones and every endpoint.
Nodes == Reg \cup {edges[i].u : i \in 1..Len(edges)}
             \cup {edges[i].v : i \in 1..Len(edges)}

\* The partition P of Nodes after joining, for every edge of F (references
\* into edges), the blocks of its two endpoints.
RECURSIVE Blocks(_, _)
Blocks(F, P) ==
  IF F = {} THEN P
  ELSE LET i == CHOOSE j \in F : TRUE
           A == CHOOSE X \in P : edges[i].u \in X
           B == CHOOSE X \in P : edges[i].v \in X
       IN Blocks(F \ {i}, (P \ {A, B}) \cup {A \cup B})

\* The connected components of the graph with the edges F.
Components(F) == Blocks(F, {{a} : a \in Nodes})

Connected(F, a, b) == \E X \in Components(F) : a \in X /\ b \in X

\* No edge of F joins two vertices the rest of F already connects.
Acyclic(F) == \A i \in F : ~Connected(F \ {i}, edges[i].u, edges[i].v)

RECURSIVE Cost(_)
Cost(F) ==
  IF F = {} THEN 0
  ELSE LET i == CHOOSE j \in F : TRUE IN edges[i].weight + Cost(F \ {i})

AllEdges == 1..Len(edges)

Selected == Range(mstEdges)

\* The acyclic subsets of the input edges that connect what the input
\* connects.  (A forest on n vertices with c components has n - c edges:
\* the first conjunct only spares the other two on most subsets.)
SpanningForests ==
  LET target == Components(AllEdges)
      k == Cardinality(Nodes) - Cardinality(target)
  IN {F \in SUBSET AllEdges :
        Cardinality(F) = k /\ Components(F) = target /\ Acyclic(F)}

\* s is t with some elements left out.
RECURSIVE IsSubseq(_, _)
IsSubseq(s, t) ==
  IF s = <<>> THEN TRUE
  ELSE IF t = <<>> THEN FALSE
  ELSE IF Head(s) = Head(t) THEN IsSubseq(Tail(s), Tail(t))
  ELSE IsSubseq(s, Tail(t))

\* ------------------------------------------------- DisjointSet claims

\* C1: union(x, y) on registered x, y returns true exactly when x and y were
\* in different sets before the call; after true the partition is the old
\* one with the sets of x and y merged and every other set unchanged, after
\* false the partition is unchanged.
C1_UnionMergesExactly ==
  op = "union" =>
    LET A == SetOf(pparent, argX)
        B == SetOf(pparent, argY)
    IN /\ (ret = 1) <=> ~SameSet(pparent, argX, argY)
       /\ ret \in {0, 1}
       /\ ret = 1 =>
            Partition(parent) = (Partition(pparent) \ {A, B}) \cup {A \cup B}
       /\ ret = 0 => Partition(parent) = Partition(pparent)

\* A union that merged two sets of two vertices each, neither argument a root.
C1_Witness ==
  /\ op = "union"
  /\ ret = 1
  /\ Cardinality(SetOf(pparent, argX)) = 2
  /\ Cardinality(SetOf(pparent, argY)) = 2
  /\ ~IsRoot(pparent, argX)
  /\ ~IsRoot(pparent, argY)

\* C2: the parent map is a forest: the parent chain from any registered
\* vertex never revisits a vertex and ends at a registered vertex that is
\* its own parent.
C2_ParentIsForest ==
  \A v \in Reg :
    LET c == Chain(parent, v)
    IN /\ Cardinality(Range(c)) = Len(c)
       /\ c[Len(c)] \in Reg
       /\ Get(parent, c[Len(c)]) = c[Len(c)]
       /\ \A i \in 1..Len(c) : c[i] \in Reg

\* A vertex two links away from its root.
C2_Witness == \E v \in Reg : Depth(parent, v) = 2

\* C7: no rank ever decreases; find changes no rank; a union changes a rank
\* only when it merges two roots of equal rank, and then exactly the
\* surviving root's rank, by +1.
C7_RankOnlyGrowsOnTie ==
  /\ \A v \in Reg : Get(rank, v) >= Get(prank, v)
  /\ DOMAIN rank = DOMAIN prank
  /\ op = "find" => rank = prank
  /\ op = "union" =>
       LET rx == RootOf(pparent, argX)
           ry == RootOf(pparent, argY)
           s == RootOf(parent, argX)
       IN IF ret = 1 /\ prank[rx] = prank[ry]
          THEN /\ s \in {rx, ry}
               /\ rank = [prank EXCEPT ![s] = @ + 1]
          ELSE rank = prank

\* A union of two roots that both had rank 1: the survivor's rank is now 2.
C7_Witness ==
  /\ op = "union"
  /\ ret = 1
  /\ prank[RootOf(pparent, argX)] = 1
  /\ prank[RootOf(pparent, argY)] = 1
  /\ rank[RootOf(parent, argX)] = 2

\* C8: find(x) leaves the partition and every root as they were: every
\* registered vertex has the same root before and after, a root stays a
\* root, and only parent links of non-root vertices change.
C8_FindKeepsPartition ==
  op = "find" =>
    /\ \A a \in Reg : RootOf(parent, a) = RootOf(pparent, a)
    /\ \A a \in Reg : IsRoot(pparent, a) => IsRoot(parent, a)
    /\ \A a \in Reg : Get(parent, a) # Get(pparent, a) => ~IsRoot(pparent, a)
    /\ Partition(parent) = Partition(pparent)
    /\ ret = RootOf(pparent, argX)

\* A find that rewrote a parent link.
C8_Witness == op = "find" /\ parent # pparent

\* C9: a find(x) right after a find(x) returns the same root and leaves the
\* parent map unchanged.
C9_FindIdempotent ==
  (op = "find" /\ prevFind # <<>> /\ prevFind[1] = argX) =>
    (ret = prevFind[2] /\ parent = pparent)

\* The second of two find(x) in a row, x not a root.
C9_Witness ==
  /\ op = "find"
  /\ prevFind # <<>>
  /\ prevFind[1] = argX
  /\ ret # argX

\* C10 as stated: union(x, x) returns false and leaves the rank map and the
\* parent map exactly as they were.
C10_Original ==
  (op = "union" /\ argX = argY) =>
    (ret = 0 /\ rank = prank /\ parent = pparent)

\* C10 as amended: union(x, x) on a registered x returns false, leaves the
\* rank map as it was and keeps every vertex's root; the parent map changes
\* only by the path compression of find(x): the vertices on the old chain
\* from x to its root r now have parent r, every other link is unchanged.
C10_SelfUnionOnlyCompresses ==
  (op = "union" /\ argX = argY) =>
    /\ ret = 0
    /\ rank = prank
    /\ DOMAIN parent = DOMAIN pparent
    /\ \A v \in Reg : RootOf(parent, v) = RootOf(pparent, v)
    /\ \A v \in Reg :
         parent[v] = IF v \in ChainSet(pparent, argX)
                     THEN RootOf(pparent, argX)
                     ELSE pparent[v]

\* A union(x, x) whose find rewrote x's parent link.
C10_Witness ==
  /\ op = "union"
  /\ argX = argY
  /\ parent # pparent

\* -------------------------------------------------- kruskalMST claims

\* C3: the totalCost returned is at most the cost of every acyclic subset of
\* the input edges that connects exactly the pairs of vertices the input
\* edges connect (negative and equal weights included).
C3_TotalCostMinimal ==
  pc = "done" => \A F \in SpanningForests : totalCost <= Cost(F)

\* A triangle with three different weights was given: three spanning trees
\* of three different costs, and the one returned has two edges.
C3_Witness ==
  /\ pc = "done"
  /\ Len(mstEdges) = 2
  /\ Cardinality({Cost(F) : F \in SpanningForests}) = 3
  /\ edges[1].weight > edges[2].weight

\* C4: the number of edges returned is |V| minus the number of connected
\* components of (V, E), self-loops and parallel edges allowed.
C4_EdgeCount ==
  pc = "done" =>
    Len(mstEdges) = Len(vertices) - Cardinality(Components(AllEdges))

\* A disconnected input with a self-loop and two parallel edges: two of the
\* three edges were rejected and two components remain.
C4_Witness ==
  /\ pc = "done"
  /\ Len(vertices) = 3
  /\ Len(edges) = 3
  /\ Len(mstEdges) = 1
  /\ \E i \in AllEdges : edges[i].u = edges[i].v
  /\ \E i \in AllEdges, j \in AllEdges :
       i # j /\ edges[i].u = edges[j].u /\ edges[i].v = edges[j].v
            /\ edges[i].u # edges[i].v

\* C5: the edges returned contain no cycle and no edge twice, and connect
\* two vertices exactly when the input edges connect them.
C5_SpanningForest ==
  pc = "done" =>
    /\ Cardinality(Selected) = Len(mstEdges)
    /\ Selected \subseteq AllEdges
    /\ Acyclic(Selected)
    /\ LET got == Components(Selected)
           given == Components(AllEdges)
       IN \A a \in Reg, b \in Reg :
            (\E X \in got : a \in X /\ b \in X)
              <=> (\E X \in given : a \in X /\ b \in X)

\* A cycle of three edges was given and one of its edges rejected.
C5_Witness ==
  /\ pc = "done"
  /\ Len(mstEdges) = 2
  /\ Len(edges) = 3
  /\ \A i \in AllEdges : edges[i].u # edges[i].v
  /\ \A i \in AllEdges, j \in AllEdges :
       i # j => <<edges[i].u, edges[i].v>> # <<edges[j].u, edges[j].v>>

\* sortedEdges holds every input edge once, by ascending weight, equal
\* weights in input order.
StablySorted(s) ==
  /\ Len(s) = Len(edges)
  /\ Range(s) = AllEdges
  /\ \A i \in 1..Len(s), j \in 1..Len(s) :
       i < j => \/ edges[s[i]].weight < edges[s[j]].weight
                \/ /\ edges[s[i]].weight = edges[s[j]].weight
                   /\ s[i] < s[j]

\* C6: the scan goes through the edges by ascending weight, equal weights in
\* input order, and mstEdges is a subsequence of that order: its weights
\* never decrease and two selected edges of equal weight keep their input
\* order.
C6_StableAscendingOrder ==
  pc \in {"scan", "done"} =>
    /\ StablySorted(sortedEdges)
    /\ \A i \in 1..Len(mstEdges), j \in 1..Len(mstEdges) :
         i < j =>
           \/ edges[mstEdges[i]].weight < edges[mstEdges[j]].weight
           \/ /\ edges[mstEdges[i]].weight = edges[mstEdges[j]].weight
              /\ mstEdges[i] < mstEdges[j]
    /\ IsSubseq(mstEdges, sortedEdges)

\* The first input edge is the heaviest and was scanned last; the other two
\* tie and were both selected, in input order.
C6_Witness ==
  /\ pc = "done"
  /\ Len(edges) = 3
  /\ edges[1].weight > edges[2].weight
  /\ edges[2].weight = edges[3].weight
  /\ sortedEdges = <<2, 3, 1>>
  /\ mstEdges = <<2, 3>>

\* -------------------------------------------- claims on unchecked arguments

\* C12 (as stated): find(x) for an x that was never registered fails with
\* UnknownVertex instead of returning a value -- no find on an unregistered
\* identifier ever returns.
C12_Original == ~(op = "find" /\ argX \notin Reg)

\* The run without path compression, after as many iterations as the call
\* has made.
Walked == scanWalk(vertices, edges, sortedEdges, idx - 1)

\* C19: kruskalMST on a DisjointSet whose find does not compress selects
\* exactly the same mstEdges, in the same order, with the same totalCost, and
\* at every step of the scan its forest stands for the same partition of the
\* vertices as the forest with path compression.
C19_CompressionInvisible ==
  pc \in {"scan", "done"} =>
    LET w == Walked
        root == [v \in Reg |-> findWalk(parent, v)]
        rootW == [v \in Reg |-> findWalk(w.parent, v)]
    IN /\ mstEdges = w.mstEdges
       /\ totalCost = w.totalCost
       /\ \A a, b \in Reg : (root[a] = root[b]) <=> (rootW[a] = rootW[b])

\* A call has returned in which path compression rewrote a parent link: the
\* two forests differ, one has a vertex two links from its root and the
\* other has none.
C19_Witness ==
  /\ pc = "done"
  /\ parent # Walked.parent
  /\ \E v \in Reg : Depth(Walked.parent, v) = 2
  /\ \A v \in Reg : Depth(parent, v) <= 1
  /\ Len(mstEdges) = 3

\* C20: a DisjointSet constructed from a list that repeats an identifier is
\* exactly the forest of the list without the repeats: one key for each
\* distinct identifier, its own parent, with rank 0.
C20_RepeatsCollapse ==
  op = "new" =>
    /\ parent = [e \in Range(vertices) |-> e]
    /\ rank = [e \in Range(vertices) |-> 0]

\* A DisjointSet just constructed from a list of three elements that names
\* one identifier twice and another once.
C20_Witness ==
  /\ op = "new"
  /\ Len(vertices) = 3
  /\ Cardinality(Range(vertices)) = 2
  /\ Cardinality(DOMAIN parent) = 2

\* ------------------------------------------ claims on kruskalMST's inputs

\* A list with x appended unless it is there already.
AppendNew(l, x) == IF x \in Range(l) THEN l ELSE Append(l, x)

\* The vertex list vs followed by every endpoint of the first n edges of es
\* that it does not list.
RECURSIVE WithEndpoints(_, _, _)
WithEndpoints(vs, es, n) ==
  IF n = 0 THEN vs
  ELSE AppendNew(AppendNew(WithEndpoints(vs, es, n - 1), es[n].u), es[n].v)

\* C11 (as stated): an endpoint that is not in the vertex list is registered
\* as a new singleton component -- kruskalMST(V, E) returns the mstEdges and
\* totalCost that kruskalMST(V plus every endpoint occurring in E, E) returns.
C11_Original ==
  pc = "done" =>
    [mstEdges |-> mstEdges, totalCost |-> totalCost]
      \in kruskalMST(WithEndpoints(vertices, edges, Len(edges)), edges)

\* C13 (as stated): kruskalMST fails with InvalidWeight and returns no
\* result when some edge's weight is undefined or NaN -- no call with such an
\* edge ever reaches its return statement.
C13_Original ==
  (\E i \in 1..Len(edges) : ~IsNum(edges[i].weight)) => pc # "done"

\* C14: kruskalMST never mutates its inputs: no step of a call changes the
\* vertex list, the order or the elements of the caller's edge list, or the
\* u, v or weight of an edge object.
C14_InputsUnchanged == [][vertices' = vertices /\ edges' = edges]_vars

\* A call has returned whose sort put the copy into another order than the
\* caller's list and whose scan selected an edge.
C14_Witness ==
  /\ pc = "done"
  /\ sortedEdges # [i \in 1..Len(edges) |-> i]
  /\ mstEdges # <<>>

\* C15: for the vertices A..E and the edges A-B:4, A-C:2, B-C:1, B-D:5,
\* C-D:8, C-E:10, D-E:2 in this input order, kruskalMST returns B-C(1),
\* A-C(2), D-E(2), B-D(5) in exactly that order with totalCost 10; A-B, C-D
\* and C-E are not selected.
C15_DemoResult ==
  pc = "done" /\ vertices = DemoVertices /\ edges = DemoEdges =>
    /\ [i \in 1..Len(mstEdges) |-> edges[mstEdges[i]]]
         = << [u |-> 2, v |-> 3, weight |-> 1],
              [u |-> 1, v |-> 3, weight |-> 2],
              [u |-> 4, v |-> 5, weight |-> 2],
              [u |-> 2, v |-> 4, weight |-> 5] >>
    /\ mstEdges = <<3, 2, 7, 4>>
    /\ totalCost = 10
    /\ (1..Len(edges)) \ Range(mstEdges) = {1, 5, 6}

\* runDemo's call has returned, with four edges selected.
C15_Witness ==
  /\ pc = "done"
  /\ vertices = DemoVertices
  /\ edges = DemoEdges
  /\ Len(mstEdges) = 4

\* C16: no self-loop (u = v) is ever in mstEdges, whatever its weight and
\* whether or not its vertex is in the vertex list.
C16_NoSelfLoop ==
  \A i \in 1..Len(mstEdges) : edges[mstEdges[i]].u # edges[mstEdges[i]].v

\* A call has returned on an input whose strictly lightest edge is a
\* self-loop of negative weight; the scan met it first and selected only the
\* other edge.
C16_Witness ==
  /\ pc = "done"
  /\ Len(edges) = 2
  /\ LET loop == edges[sortedEdges[1]]
         other == edges[sortedEdges[2]]
     IN /\ loop.u = loop.v
        /\ loop.weight < 0
        /\ loop.weight < other.weight
        /\ mstEdges = <<sortedEdges[2]>>

\* Edges i and j join the same unordered pair of vertices.
SamePair(i, j) ==
  {edges[i].u, edges[i].v} = {edges[j].u, edges[j].v}

\* C17: of several edges between the same unordered pair of vertices at most
\* one is selected, and a selected one has the minimum weight among them
\* and is the first in input order of those that share the minimum.
C17_ParallelEdges ==
  \A i, j \in 1..Len(edges) :
    i # j /\ SamePair(i, j) /\ i \in Range(mstEdges) =>
      /\ j \notin Range(mstEdges)
      /\ \/ edges[i].weight < edges[j].weight
         \/ edges[i].weight = edges[j].weight /\ i < j

\* A call has returned on two edges between the same two vertices, written
\* in opposite directions, the heavier first in the input; the second is the
\* one selected.
C17_Witness ==
  /\ pc = "done"
  /\ Len(edges) = 2
  /\ edges[1].u = edges[2].v
  /\ edges[1].v = edges[2].u
  /\ edges[1].u # edges[1].v
  /\ edges[1].weight > edges[2].weight
  /\ mstEdges = <<2>>

\* C18: with an empty vertex list (whatever the edges) and with an empty
\* edge list (whatever the vertices), kruskalMST returns mstEdges = [] and
\* totalCost = 0.
C18_EmptyInputs ==
  pc = "done" /\ (vertices = <<>> \/ edges = <<>>) =>
    mstEdges = <<>> /\ totalCost = 0

\* A call with an empty vertex list and two edges, one of them between two
\* different identifiers, has returned.
C18_Witness ==
  /\ pc = "done"
  /\ vertices = <<>>
  /\ Len(edges) = 2
  /\ edges[1].u # edges[1].v

\* ------------------------------------------- interval_scheduling.js

\* No DisjointSet and no kruskalMST call: their variables rest.
KruskalIdle ==
  /\ parent = <<>>
  /\ rank = <<>>
  /\ op = "none"
  /\ argX = Undef
  /\ argY = Undef
  /\ ret = Undef
  /\ pparent = <<>>
  /\ prank = <<>>
  /\ prevFind = <<>>
  /\ vertices = <<>>
  /\ edges = <<>>
  /\ sortedEdges = <<>>
  /\ mstEdges = <<>>
  /\ totalCost = 0
  /\ idx = 0
  /\ pc = "idle"

\* Overlap if [a.start, a.end) and [b.start, b.end) intersect.
tasksOverlap(a, b) == a.start < b.end /\ b.start < a.end

\* Array.prototype.sort with the comparator key[a] - key[b], stable: the
\* reference r goes after every reference whose key is not greater.
InsertByKey(key, s, r) ==
  LET before == {i \in 1..Len(s) : key[s[i]] - key[r] <= 0}
      k == Cardinality(before)
  IN SubSeq(s, 1, k) \o <<r>> \o SubSeq(s, k + 1, Len(s))

RECURSIVE SortByKey(_, _)
SortByKey(key, n) ==
  IF n = 0 THEN <<>> ELSE InsertByKey(key, SortByKey(key, n - 1), n)

\* -Infinity: below every time.
NegInfinity == -300

\* The loop of greedySelect after the first n tasks of the order s.
RECURSIVE greedyLoop(_, _, _)
greedyLoop(ts, s, n) ==
  IF n = 0 THEN [result |-> <<>>, lastEnd |-> NegInfinity]
  ELSE LET st == greedyLoop(ts, s, n - 1)
           task == ts[s[n]]
       IN IF task.start >= st.lastEnd
          THEN [result |-> Append(st.result, s[n]), lastEnd |-> task.end]
          ELSE st

\* greedySelect(tasks): sort a copy by end time, take every task that starts
\* no earlier than the last taken one ends.
greedySelect(ts) ==
  IF Len(ts) = 0 THEN <<>>
  ELSE LET sorted == SortByKey([i \in 1..Len(ts) |-> ts[i].end], Len(ts))
       IN greedyLoop(ts, sorted, Len(sorted)).result

\* backtrack(index, current) of bruteForceSelect; best is the closure's
\* variable, handed on and returned.  index counts from 1.
RECURSIVE backtrack(_, _, _, _, _)
backtrack(ts, s, index, current, best) ==
  IF index = Len(s) + 1
  THEN IF Len(current) > Len(best) THEN current ELSE best
  ELSE LET skipped == backtrack(ts, s, index + 1, current, best)
           candidate == s[index]
           compatible == \A i \in 1..Len(current) :
                           ~tasksOverlap(ts[current[i]], ts[candidate])
       IN IF compatible
          THEN backtrack(ts, s, index + 1, Append(current, candidate), skipped)
          ELSE skipped

\* bruteForceSelect(tasks): sort a copy by start time, try every subset.
bruteForceSelect(ts) ==
  backtrack(ts, SortByKey([i \in 1..Len(ts) |-> ts[i].start], Len(ts)),
            1, <<>>, <<>>)

\* Tasks with start <= end over the times 0..MaxTime.
TaskSet == {t \in [start : 0..MaxTime, end : 0..MaxTime] : t.start <= t.end}

SchedInit ==
  /\ tasks \in SeqsUpTo(TaskSet, MaxTasks)
  /\ greedyOut = <<>>
  /\ bruteOut = <<>>
  /\ ran = {}
  /\ KruskalIdle
  /\ QueueIdle
  /\ PqIdle

RunBrute ==
  /\ "brute" \notin ran
  /\ bruteOut' = bruteForceSelect(tasks)
  /\ ran' = ran \cup {"brute"}
  /\ UNCHANGED <<tasks, greedyOut, dsvars, kvars, qvars, pvars>>

RunGreedy ==
  /\ "greedy" \notin ran
  /\ greedyOut' = greedySelect(tasks)
  /\ ran' = ran \cup {"greedy"}
  /\ UNCHANGED <<tasks, bruteOut, dsvars, kvars, qvars, pvars>>

SchedNext == RunBrute \/ RunGreedy

SpecSched == SchedInit /\ [][SchedNext]_vars

\* The tasks a list of references picks are pairwise non-overlapping.
Compatible(refs) ==
  \A i, j \in 1..Len(refs) :
    i # j => refs[i] # refs[j] /\ ~tasksOverlap(tasks[refs[i]], tasks[refs[j]])

\* The largest number of pairwise non-overlapping tasks of the list.
MaxCompatible ==
  LET ok == {S \in SUBSET (1..Len(tasks)) :
               \A i, j \in S : i # j => ~tasksOverlap(tasks[i], tasks[j])}
  IN CHOOSE n \in 0..Len(tasks) :
       /\ \E S \in ok : Cardinality(S) = n
       /\ \A S \in ok : Cardinality(S) <= n

\* C21 (as stated): for every list of tasks with start <= end, zero-length
\* tasks included, in any input order, greedySelect returns pairwise
\* non-overlapping tasks, as many as bruteForceSelect returns, which is the
\* maximum number of pairwise non-overlapping tasks.
C21_Original ==
  ran = {"greedy", "brute"} =>
    /\ Compatible(greedyOut)
    /\ Len(greedyOut) = Len(bruteOut)
    /\ Len(bruteOut) = MaxCompatible

\* ------------------------------------------------- graph.js: the queues

\* enqueue without the test for a full queue.
aqEnqueueNoFullCheck(q, element) ==
  [queue |-> [q EXCEPT !.data[q.rearIndex] = element,
                       !.rearIndex = (q.rearIndex + 1) % q.capacity,
                       !.size = q.size + 1],
   threw |-> FALSE, ret |-> Undef]

\* ArrayQueue.enqueue(element): the queue afterwards, whether the call
\* threw, and what it returned (nothing).
aqEnqueue(q, element) ==
  IF q.size = q.capacity
  THEN [queue |-> q, threw |-> TRUE, ret |-> Undef]
  ELSE [queue |-> [q EXCEPT !.data[q.rearIndex] = element,
                            !.rearIndex = (q.rearIndex + 1) % q.capacity,
                            !.size = q.size + 1],
        threw |-> FALSE, ret |-> Undef]

\* ArrayQueue.dequeue().
aqDequeue(q) ==
  IF q.size = 0
  THEN [queue |-> q, threw |-> TRUE, ret |-> Undef]
  ELSE [queue |-> [q EXCEPT !.data[q.frontIndex] = Undef,
                            !.frontIndex = (q.frontIndex + 1) % q.capacity,
                            !.size = q.size - 1],
        threw |-> FALSE, ret |-> q.data[q.frontIndex]]

\* ArrayQueue.peek().
aqPeek(q) ==
  IF q.size = 0
  THEN [queue |-> q, threw |-> TRUE, ret |-> Undef]
  ELSE [queue |-> q, threw |-> FALSE, ret |-> q.data[q.frontIndex]]

\* LinkedListQueue.enqueue(element): a new node after the tail (the head as
\* well when the list was empty).
llEnqueue(l, element) == [list |-> Append(l, element), threw |-> FALSE, ret |-> Undef]

\* LinkedListQueue.dequeue(): the head's value; the head moves to its next.
llDequeue(l) ==
  IF l = <<>>
  THEN [list |-> l, threw |-> TRUE, ret |-> Undef]
  ELSE [list |-> Tail(l), threw |-> FALSE, ret |-> Head(l)]

\* LinkedListQueue.peek().
llPeek(l) ==
  IF l = <<>>
  THEN [list |-> l, threw |-> TRUE, ret |-> Undef]
  ELSE [list |-> l, threw |-> FALSE, ret |-> Head(l)]

\* The values a caller enqueues.
QElems == 1..2

\* new ArrayQueue(c) and new LinkedListQueue(); a capacity <= 0 makes the
\* constructor throw, and there is no queue to call.
QueueInit ==
  /\ capacity \in 0..MaxCap
  /\ data = [i \in 0..(capacity - 1) |-> Undef]
  /\ frontIndex = 0
  /\ rearIndex = 0
  /\ size = 0
  /\ list = <<>>
  /\ qcall = [NoCall EXCEPT !.op = "new", !.arg = capacity,
                            !.athrew = (capacity <= 0)]
  /\ qprev = [queue |-> ThisQueue, list |-> list]
  /\ KruskalIdle
  /\ SchedIdle
  /\ PqIdle

Constructed == ~(qcall.op = "new" /\ qcall.athrew)

\* The caller makes each call on both queues; an element the ArrayQueue
\* refuses (its enqueue threw) is not handed to the LinkedListQueue.
QueueCall(call, arg, a, l) ==
  /\ capacity' = a.queue.capacity
  /\ data' = a.queue.data
  /\ frontIndex' = a.queue.frontIndex
  /\ rearIndex' = a.queue.rearIndex
  /\ size' = a.queue.size
  /\ list' = l.list
  /\ qcall' = [op |-> call, arg |-> arg, aret |-> a.ret, lret |-> l.ret,
               athrew |-> a.threw, lthrew |-> l.threw]
  /\ qprev' = [queue |-> ThisQueue, list |-> list]
  /\ UNCHANGED <<dsvars, kvars, svars, pvars>>

Enqueue ==
  /\ Constructed
  /\ \E element \in QElems :
       LET a == aqEnqueue(ThisQueue, element)
       IN QueueCall("enqueue", element, a,
                    IF a.threw THEN [list |-> list, threw |-> FALSE, ret |-> Undef]
                               ELSE llEnqueue(list, element))

Dequeue ==
  /\ Constructed
  /\ QueueCall("dequeue", Undef, aqDequeue(ThisQueue), llDequeue(list))

Peek ==
  /\ Constructed
  /\ QueueCall("peek", Undef, aqPeek(ThisQueue), llPeek(list))

QueueNext == Enqueue \/ Dequeue \/ Peek

SpecQueue == QueueInit /\ [][QueueNext]_vars

\* What an ArrayQueue holds, oldest first: size slots from frontIndex on,
\* around the end of the array.
Contents(q) ==
  [i \in 1..q.size |-> q.data[(q.frontIndex + i - 1) % q.capacity]]

Swap(h, i, j) == [h EXCEPT ![i + 1] = h[j + 1], ![j + 1] = h[i + 1]]

\* _heapifyUp(index).
RECURSIVE heapifyUp(_, _)
heapifyUp(h, index) ==
  IF index > 0
  THEN LET up == (index - 1) \div 2
       IN IF h[index + 1].priority >= h[up + 1].priority
          THEN h
          ELSE heapifyUp(Swap(h, index, up), up)
  ELSE h

RECURSIVE heapifyDown(_, _)

\* _heapifyDown that looks at the left child only.
heapifyDownLeftOnly(h, index) ==
  LET n == Len(h)
      left == 2 * index + 1
      smallest == IF left < n /\ h[left + 1].priority < h[index + 1].priority
                  THEN left ELSE index
  IN IF smallest = index THEN h
     ELSE heapifyDown(Swap(h, index, smallest), smallest)

\* _heapifyDown(index).
heapifyDown(h, index) ==
  LET n == Len(h)
      left == 2 * index + 1
      right == 2 * index + 2
      s1 == IF left < n /\ h[left + 1].priority < h[index + 1].priority
            THEN left ELSE index
      smallest == IF right < n /\ h[right + 1].priority < h[s1 + 1].priority
                  THEN right ELSE s1
  IN IF smallest = index THEN h
     ELSE heapifyDown(Swap(h, index, smallest), smallest)

\* MinHeapPriorityQueue.insert(element).
mhInsert(h, element) ==
  [q |-> heapifyUp(Append(h, element), Len(h)), threw |-> FALSE, ret |-> Undef]

\* MinHeapPriorityQueue.extractMin().
mhExtractMin(h) ==
  IF Len(h) = 0
  THEN [q |-> h, threw |-> TRUE, ret |-> Undef]
  ELSE LET min == h[1]
           last == h[Len(h)]
           popped == SubSeq(h, 1, Len(h) - 1)
       IN [q |-> IF Len(popped) > 0
                 THEN heapifyDown([popped EXCEPT ![1] = last], 0)
                 ELSE popped,
           threw |-> FALSE, ret |-> min]

\* MinHeapPriorityQueue.peekMin() and OrderedArrayPriorityQueue.peekMin().
peekMin(a) ==
  IF Len(a) = 0
  THEN [q |-> a, threw |-> TRUE, ret |-> Undef]
  ELSE [q |-> a, threw |-> FALSE, ret |-> a[1]]

\* The while loop of OrderedArrayPriorityQueue.insert, from index i on.
RECURSIVE insertIndex(_, _, _)
insertIndex(a, element, i) ==
  IF i < Len(a) /\ a[i + 1].priority <= element.priority
  THEN insertIndex(a, element, i + 1)
  ELSE i

\* OrderedArrayPriorityQueue.insert(element).
oaInsert(a, element) ==
  IF Len(a) = 0
  THEN [q |-> <<element>>, threw |-> FALSE, ret |-> Undef]
  ELSE LET i == insertIndex(a, element, 0)
       IN [q |-> SubSeq(a, 1, i) \o <<element>> \o SubSeq(a, i + 1, Len(a)),
           threw |-> FALSE, ret |-> Undef]

\* OrderedArrayPriorityQueue.extractMin().
oaExtractMin(a) ==
  IF Len(a) = 0
  THEN [q |-> a, threw |-> TRUE, ret |-> Undef]
  ELSE [q |-> Tail(a), threw |-> FALSE, ret |-> Head(a)]

\* The elements a caller inserts: { value, priority }.
PqElems == [value : 1..2, priority : 0..MaxPrio]

PqInit ==
  /\ heap = <<>>
  /\ items = <<>>
  /\ pcall = [NoPqCall EXCEPT !.op = "new"]
  /\ pprev = [heap |-> <<>>, items |-> <<>>]
  /\ KruskalIdle
  /\ SchedIdle
  /\ QueueIdle

\* The caller makes each call on both priority queues.
PqCall(call, arg, h, o) ==
  /\ heap' = h.q
  /\ items' = o.q
  /\ pcall' = [op |-> call, arg |-> arg, hret |-> h.ret, oret |-> o.ret,
               hthrew |-> h.threw, othrew |-> o.threw]
  /\ pprev' = [heap |-> heap, items |-> items]
  /\ UNCHANGED <<dsvars, kvars, svars, qvars>>

Insert ==
  /\ Len(heap) < MaxPq
  /\ \E element \in PqElems :
       PqCall("insert", element, mhInsert(heap, element), oaInsert(items, element))

ExtractMin ==
  PqCall("extractMin", Undef, mhExtractMin(heap), oaExtractMin(items))

PeekMin ==
  PqCall("peekMin", Undef, peekMin(heap), peekMin(items))

PqNext == Insert \/ ExtractMin \/ PeekMin

SpecPq == PqInit /\ [][PqNext]_vars

\* How often the element e is in the array a.
Count(a, e) == Cardinality({i \in 1..Len(a) : a[i] = e})

SameElements(a, b) ==
  Len(a) = Len(b) /\ \A i \in 1..Len(a) : Count(a, a[i]) = Count(b, a[i])

\* The array a is the array b without one occurrence of e.
Without(a, b, e) ==
  /\ Len(a) + 1 = Len(b)
  /\ Count(a, e) + 1 = Count(b, e)
  /\ \A i \in 1..Len(a) : a[i] # e => Count(a, a[i]) = Count(b, a[i])

\* The least priority in the non-empty array a.
MinPriority(a) ==
  CHOOSE m \in {a[i].priority : i \in 1..Len(a)} :
    \A i \in 1..Len(a) : m <= a[i].priority

\* The priorities of the elements of a, in the order of a.
Priorities(a) == [i \in 1..Len(a) |-> a[i].priority]

\* What the two queues have in common whatever they hold: the heap order,
\* the ascending order, when extractMin and peekMin throw, what they return
\* and what a call leaves in each queue.
PqContract ==
  /\ \A i \in 1..(Len(heap) - 1) :
       heap[((i - 1) \div 2) + 1].priority <= heap[i + 1].priority
  /\ \A i \in 1..(Len(items) - 1) : items[i].priority <= items[i + 1].priority
  /\ pcall.op \in {"extractMin", "peekMin"} =>
       /\ pcall.hthrew <=> pprev.heap = <<>>
       /\ pcall.othrew <=> pprev.items = <<>>
       /\ ~pcall.hthrew /\ ~pcall.othrew =>
            /\ Count(pprev.heap, pcall.hret) > 0
            /\ Count(pprev.items, pcall.oret) > 0
            /\ pcall.hret.priority = MinPriority(pprev.heap)
            /\ pcall.oret.priority = MinPriority(pprev.items)
            /\ pcall.hret.priority = pcall.oret.priority
       /\ pcall.hthrew => heap = pprev.heap
       /\ pcall.othrew => items = pprev.items
  /\ pcall.op = "extractMin" =>
       /\ ~pcall.hthrew => Without(heap, pprev.heap, pcall.hret)
       /\ ~pcall.othrew => Without(items, pprev.items, pcall.oret)
  /\ pcall.op = "peekMin" => heap = pprev.heap /\ items = pprev.items
  /\ pcall.op = "insert" =>
       /\ Without(pprev.heap, heap, pcall.arg)
       /\ Without(pprev.items, items, pcall.arg)

\* C23 (as stated): for every sequence of insert, extractMin and peekMin
\* calls made on a MinHeapPriorityQueue and an OrderedArrayPriorityQueue
\* alike, the heap array has heap[parent].priority <= heap[child].priority,
\* the ordered array is sorted ascending, extractMin and peekMin return an
\* element of least priority (the same priority from both) and throw on an
\* empty queue -- and the two queues hold the same multiset of elements.
C23_Original == PqContract /\ SameElements(heap, items)

\* C23 (amended): the same, but the two queues hold the same multiset of
\* priorities; among elements of equal priority they may return different
\* ones and from then on hold different elements.
C23_PriorityQueues ==
  PqContract /\ SameElements(Priorities(heap), Priorities(items))

\* An extractMin on four elements has returned: in the heap the last
\* element went to the root and sank to the right child; the two queues
\* returned different elements of the same priority and no longer hold the
\* same elements.
C23_Witness ==
  /\ pcall.op = "extractMin"
  /\ Len(pprev.heap) = 4
  /\ heap[3] = pprev.heap[4]
  /\ heap[1] = pprev.heap[3]
  /\ pcall.hret # pcall.oret
  /\ pcall.hret.priority = pcall.oret.priority
  /\ ~SameElements(heap, items)

\* ------------------------------------------- DisjointSet claims, continued

\* The registered vertices that are roots of the parent map p.
Roots(p) == {v \in Reg : IsRoot(p, v)}

\* C24: in a union(x, y) that returns true, with rootX and rootY the roots
\* of x and y before the call: the root of smaller rank is attached under
\* the other; on equal ranks rootY is attached under rootX and rank[rootX]
\* grows by 1. Exactly one root stops being a root, and its rank was not
\* larger than the survivor's.
C24_UnionByRank ==
  (op = "union" /\ ret = 1) =>
    LET rootX == RootOf(pparent, argX)
        rootY == RootOf(pparent, argY)
        lost == Roots(pparent) \ Roots(parent)
    IN /\ prank[rootX] < prank[rootY] =>
            parent[rootX] = rootY /\ parent[rootY] = rootY
       /\ prank[rootX] > prank[rootY] =>
            parent[rootY] = rootX /\ parent[rootX] = rootX
       /\ prank[rootX] = prank[rootY] =>
            /\ parent[rootY] = rootX
            /\ parent[rootX] = rootX
            /\ rank[rootX] = prank[rootX] + 1
       /\ Cardinality(lost) = 1
       /\ lost \subseteq {rootX, rootY}
       /\ Roots(parent) \subseteq Roots(pparent)
       /\ \A l \in lost : prank[l] <= prank[parent[l]]

\* A union that attached the root of its first argument, of rank 0, under
\* the root of its second, of rank 1.
C24_Witness ==
  /\ op = "union"
  /\ ret = 1
  /\ prank[RootOf(pparent, argX)] = 0
  /\ prank[RootOf(pparent, argY)] = 1
  /\ parent[RootOf(pparent, argX)] = RootOf(pparent, argY)

\* C25: after find(x) on a registered x has returned the root r, every
\* vertex that lay on the parent chain from x to r before the call (x
\* included) has parent r, and the parent of every vertex off that chain is
\* what it was.
C25_PathCompression ==
  op = "find" =>
    LET before == ChainSet(pparent, argX)
    IN /\ ret = RootOf(pparent, argX)
       /\ \A v \in before : parent[v] = ret
       /\ \A v \in Reg \ before : parent[v] = pparent[v]
       /\ DOMAIN parent = DOMAIN pparent

\* A find(x) with x two links below its root, now one link below it, while
\* another vertex of the tree, off the chain, kept its parent.
C25_Witness ==
  /\ op = "find"
  /\ Depth(pparent, argX) = 2
  /\ parent[argX] = ret
  /\ pparent[argX] # ret
  /\ \E v \in Reg \ ChainSet(pparent, argX) :
       /\ pparent[v] # v
       /\ parent[v] = pparent[v]

\* ------------------------------------------- kruskalMST claims, continued

\* The edges appended before the iteration that has just run.
AppendedBefore == IF ret = 1 THEN Range(SubSeq(mstEdges, 1, Len(mstEdges) - 1))
                  ELSE Selected

\* C26: during the scan of kruskalMST over V and E with every endpoint in V,
\* the edge of an iteration is appended to mstEdges exactly when the edges
\* appended before it do not connect its endpoints; at every step the
\* DisjointSet partition is the set of connected components of V with the
\* edges appended so far, and totalCost is the sum of their weights.
C26_ScanInvariant ==
  (pc \in {"scan", "done"} /\ Nodes = Reg) =>
    /\ Partition(parent) = Components(Selected)
    /\ totalCost = Cost(Selected)
    /\ Cardinality(Selected) = Len(mstEdges)
    /\ op = "union" =>
         LET r == sortedEdges[idx - 1]
         IN /\ argX = edges[r].u
            /\ argY = edges[r].v
            /\ (ret = 1) <=> ~Connected(AppendedBefore, argX, argY)
            /\ (ret = 1) <=> (mstEdges # <<>> /\ mstEdges[Len(mstEdges)] = r)
            /\ r \in Selected <=> (ret = 1)

\* The scan has appended two edges and has just passed over a third, whose
\* endpoints the two already connect.
C26_Witness ==
  /\ pc = "scan"
  /\ op = "union"
  /\ ret = 0
  /\ Len(mstEdges) >= 2
  /\ argX # argY
  /\ Connected(Selected, argX, argY)
  /\ totalCost > 0

\* The longest parent chain, in links, that ends at the root r.
Height(p, r) ==
  LET ds == {Depth(p, v) : v \in SetOf(p, r)}
  IN CHOOSE d \in ds : \A e \in ds : e <= d

\* floor(log2(n)) for n >= 1.
FloorLog2(n) == CHOOSE k \in 0..n : 2^k <= n /\ n < 2^(k + 1)

\* C27: in every DisjointSet state reached by find and union calls on
\* registered vertices, the tree of every root r is at most rank[r] links
\* high and holds at least 2^rank[r] vertices, so no parent chain is longer
\* than floor(log2(n)) links for n registered vertices; every vertex that is
\* not a root has a rank strictly smaller than its parent's.
C27_RankBounds ==
  /\ \A r \in Roots(parent) :
       /\ Height(parent, r) <= rank[r]
       /\ Cardinality(SetOf(parent, r)) >= 2^rank[r]
  /\ \A v \in Reg : Depth(parent, v) <= FloorLog2(Cardinality(Reg))
  /\ \A v \in Reg \ Roots(parent) : rank[v] < rank[parent[v]]

\* A root of rank 2 whose tree is two links high and holds exactly four
\* vertices, after a find or union call.
C27_Witness ==
  /\ op \in {"find", "union"}
  /\ \E r \in Roots(parent) :
       /\ rank[r] = 2
       /\ Height(parent, r) = 2
       /\ Cardinality(SetOf(parent, r)) = 4

\* find(x) on the parent map p returns: the parent chain from x reaches,
\* within one link per key of the map and one more for x itself, an
\* identifier that the map sends to itself (the value undefined, while it
\* is no key, is such an identifier: Map.get answers undefined for it).
FindTerminates(p, x) ==
  LET c == ChainSeq(p, x, Cardinality(DOMAIN p) + 1)
  IN Get(p, c[Len(c)]) = c[Len(c)]

\* The loop has run once for every input edge: the references scanned are
\* all of sortedEdges, and sortedEdges holds every input edge once.
UnionOncePerEdge ==
  /\ idx - 1 = Len(edges)
  /\ Len(sortedEdges) = Len(edges)
  /\ Range(sortedEdges) = 1..Len(edges)

\* C28: for every vertex list and edge list, edges with endpoints outside
\* the vertex list included, kruskalMST returns: in every state of the call
\* find terminates on every identifier, and the call reaches its return
\* with union called once for every input edge.
C28_Terminates ==
  /\ [](\A x \in RunIds \cup {Undef} : FindTerminates(parent, x))
  /\ (pc = "start") ~> [](pc = "done" /\ UnionOncePerEdge)

\* kruskalMST has returned after two edges with an unregistered endpoint;
\* the parent chain of an unregistered identifier passes through undefined
\* to a registered root.
C28_Witness ==
  /\ pc = "done"
  /\ Len(edges) = 2
  /\ \E x \in RunIds \ Reg :
       /\ Get(parent, x) = Undef
       /\ Get(parent, Undef) \in Reg

\* The number of activations of find that are on the call stack when
\* find(x) is at its deepest: line 25 calls find on the parent from inside
\* the activation for x, whenever x is not its own parent.
RECURSIVE findActivations(_, _)
findActivations(p, x) ==
  IF Get(p, x) # x
  THEN 1 + findActivations(p, Get(p, x))
  ELSE 1

\* C29 as stated: find is iterative: one find(x) call has one activation of
\* find, however long the parent chain from x to its root is.
C29_Original ==
  op = "find" => findActivations(pparent, argX) = 1

\* C30 as stated: after any sequence of find and union calls with any
\* arguments, registered or not, the keys of the parent map and of the rank
\* map are exactly the vertices passed to the constructor, every parent
\* value is a registered vertex and every rank value is a non-negative
\* integer (never undefined or NaN).
C30_Original ==
  /\ DOMAIN parent = Reg
  /\ DOMAIN rank = Reg
  /\ \A k \in DOMAIN parent : parent[k] \in Reg
  /\ \A k \in DOMAIN rank : rank[k] \in Nat

====
